---- MODULE Spec2Model ----
(***************************************************************************)
(* Model of src/src/scopedLog.ts: the namespace tree of log levels, the    *)
(* lookup shouldLog, the assignment setLogLevel, reset, and the scoped     *)
(* logger that dispatches accepted calls to the outputters.                *)
(*                                                                         *)
(* A string is a sequence of one-character strings, so that endsWith,      *)
(* includes, split and the template literal are computed character by      *)
(* character.  The tree of nested Map<string, NamespaceNode> is a function *)
(* from paths (sequences of namespace parts, the root being <<>>) to the   *)
(* node's fields; a node's children are the paths one part longer.         *)
(***************************************************************************)
EXTENDS Integers, Sequences, FiniteSets, TLC

VARIABLES
    namespaces,   \* _namespaces: the tree
    outputters,   \* the list of outputters
    logger,       \* the closure the last scopedLog returned
    call,         \* the last call made: operation and arguments
    result,       \* what it returned ("void", "true", "false") or threw
    emitted,      \* the calls it made on the outputters, in order
    pre,          \* what the last call found: the number of nodes of the
                  \* tree and the level in the slot it was to write
    terminals,    \* the paths that accepted setLogLevel calls addressed
                  \* since the tree was created
    atCreation    \* what shouldLog returned, level by level, for the
                  \* namespace of the logger when the logger was made

vars ==
    <<namespaces, outputters, logger, call, result, emitted, pre, terminals,
      atCreation>>

----------------------------------------------------------------------------
(* Bounds *)

\* at most this many level slots hold a level in the tree (the root's
\* cascading level included)
MaxLevelsSet == 3

----------------------------------------------------------------------------
(* LogLevel (types.ts) and the module constants *)

OFF == 0
ERROR == 1
WARN == 2
INFO == 3
LOG == 4
DEBUG == 5

LogLevel == {OFF, ERROR, WARN, INFO, LOG, DEBUG}

\* the null of `LogLevel | null`
Null == -1

DEFAULT_ROOT_LEVEL == INFO

\* Symbol('RootNamespace'): a value that equals no string of characters
RootNamespace == <<"Symbol(RootNamespace)">>

WILDCARD_NAMESPACE_TOKEN == <<"*">>

ROOT_NAMESPACE_KEY == <<"$">>

\* the value of `message` when the namespace is the symbol
Undefined == <<"undefined">>

ConsoleOutputter == "ConsoleOutputter"

----------------------------------------------------------------------------
(* String primitives of the language, on sequences of characters *)

endsWith(s, c) == Len(s) > 0 /\ s[Len(s)] = c

includes2(s, c, d) == \E i \in 1..(Len(s) - 1) : s[i] = c /\ s[i + 1] = d

\* index of the first c in s, 0 if there is none
RECURSIVE indexOf(_, _, _)
indexOf(s, c, from) ==
    IF from > Len(s) THEN 0
    ELSE IF s[from] = c THEN from
    ELSE indexOf(s, c, from + 1)

\* String.prototype.split(c): always at least one part, "" included
RECURSIVE split(_, _)
split(s, c) ==
    LET i == indexOf(s, c, 1) IN
    IF i = 0 THEN <<s>>
    ELSE <<SubSeq(s, 1, i - 1)>> \o split(SubSeq(s, i + 1, Len(s)), c)

\* Array.prototype.pop / slice(i), 0-based i
pop(a) == SubSeq(a, 1, Len(a) - 1)

slice(a, i) == SubSeq(a, i + 1, Len(a))

----------------------------------------------------------------------------
(* namespaceParts *)

ErrColon == "Error: cannot end with a colon ':'"
ErrEmptySegments == "Error: cannot contain empty segments"
ErrEmpty == "Error: cannot be empty"
ErrWildcard == "Error: cannot end with a wildcard token '*'"
ErrNoNamespaces == "Error: No namespaces found invalid tree."
ErrNoCascading == "Error: Invalid root namespace, no cascading level defined."
ErrShouldntExist == "Error: Namespace shoudn't exist in the tree."

ValidationErrors == {ErrColon, ErrEmptySegments, ErrEmpty, ErrWildcard}

FatalErrors == {ErrNoNamespaces, ErrNoCascading, ErrShouldntExist}

Parsed(parts, isWildcard) ==
    [err |-> "", parts |-> parts, isWildcard |-> isWildcard]

Thrown(e) == [err |-> e, parts |-> <<>>, isWildcard |-> FALSE]

\* variant: without the check for '::'
namespaceParts_NoEmptySegmentCheck(namespace, allowWildcard) ==
    IF namespace = RootNamespace THEN Parsed(<<>>, FALSE)
    ELSE IF namespace = <<>> \/ namespace = ROOT_NAMESPACE_KEY
    THEN Parsed(<<>>, FALSE)
    ELSE IF endsWith(namespace, ":") THEN Thrown(ErrColon)
    ELSE
      LET parts == split(namespace, ":")
          isWildcard == parts[Len(parts)] = WILDCARD_NAMESPACE_TOKEN
          popped == IF isWildcard THEN pop(parts) ELSE parts
      IN  IF isWildcard /\ ~allowWildcard THEN Thrown(ErrWildcard)
          ELSE IF Len(popped) = 1 /\ popped[1] = ROOT_NAMESPACE_KEY
          THEN Parsed(<<>>, isWildcard)
          ELSE Parsed(popped, isWildcard)

\* namespaceParts without the collapse of [ROOT_NAMESPACE_KEY] to the root
namespaceParts_NoRootKeyCollapse(namespace, allowWildcard) ==
    IF namespace = RootNamespace THEN Parsed(<<>>, FALSE)
    ELSE IF namespace = <<>> \/ namespace = ROOT_NAMESPACE_KEY
    THEN Parsed(<<>>, FALSE)
    ELSE IF endsWith(namespace, ":") THEN Thrown(ErrColon)
    ELSE IF includes2(namespace, ":", ":") THEN Thrown(ErrEmptySegments)
    ELSE
      LET parts == split(namespace, ":")
          isWildcard == parts[Len(parts)] = WILDCARD_NAMESPACE_TOKEN
          popped == IF isWildcard THEN pop(parts) ELSE parts
      IN  IF Len(parts) = 0 THEN Thrown(ErrEmpty)
          ELSE IF isWildcard /\ ~allowWildcard THEN Thrown(ErrWildcard)
          ELSE Parsed(popped, isWildcard)

namespaceParts(namespace, allowWildcard) ==
    IF namespace = RootNamespace THEN Parsed(<<>>, FALSE)
    ELSE IF namespace = <<>> \/ namespace = ROOT_NAMESPACE_KEY
    THEN Parsed(<<>>, FALSE)
    ELSE IF endsWith(namespace, ":") THEN Thrown(ErrColon)
    ELSE IF includes2(namespace, ":", ":") THEN Thrown(ErrEmptySegments)
    ELSE
      LET parts == split(namespace, ":")
          isWildcard == parts[Len(parts)] = WILDCARD_NAMESPACE_TOKEN
          popped == IF isWildcard THEN pop(parts) ELSE parts
      IN  IF Len(parts) = 0 THEN Thrown(ErrEmpty)
          ELSE IF isWildcard /\ ~allowWildcard THEN Thrown(ErrWildcard)
          ELSE IF Len(popped) = 1 /\ popped[1] = ROOT_NAMESPACE_KEY
          THEN Parsed(<<>>, isWildcard)
          ELSE Parsed(popped, isWildcard)

----------------------------------------------------------------------------
(* The tree *)

NamespaceNode(part, nodeLevel, cascadingLevel) ==
    [namespacePart |-> part, nodeLevel |-> nodeLevel,
     cascadingLevel |-> cascadingLevel]

createRootNode ==
    (<<>> :> NamespaceNode(ROOT_NAMESPACE_KEY, Null, DEFAULT_ROOT_LEVEL))

\* currentNode.children.has(part), currentNode being the node at path
childrenHas(tree, path, part) == Append(path, part) \in DOMAIN tree

IsPrefix(p, q) == Len(p) <= Len(q) /\ SubSeq(q, 1, Len(p)) = p

\* variant: the new entry replaces the whole map of children
childrenSet_DropsSiblings(tree, path, part, childNode) ==
    LET p == Append(path, part)
        kept == {q \in DOMAIN tree : ~(IsPrefix(path, q) /\ q # path)}
    IN  [q \in kept \cup {p} |-> IF q = p THEN childNode ELSE tree[q]]

\* currentNode.children.set(part, childNode): the entry for the key is
\* replaced, and with it whatever was below the old entry
childrenSet(tree, path, part, childNode) ==
    LET p == Append(path, part)
        kept == {q \in DOMAIN tree : ~IsPrefix(p, q)}
    IN  [q \in kept \cup {p} |-> IF q = p THEN childNode ELSE tree[q]]

\* variant: push instead of unshift, the visited nodes farthest first
RECURSIVE findNearestLoop_Push(_, _, _, _, _)
findNearestLoop_Push(tree, namespacePartsArg, i, currentNode, visited) ==
    IF i >= Len(namespacePartsArg)
    THEN [nodes |-> visited, remaining |-> <<>>]
    ELSE LET part == namespacePartsArg[i + 1] IN
         IF Append(currentNode, part) \in DOMAIN tree
         THEN findNearestLoop_Push(tree, namespacePartsArg, i + 1,
                                   Append(currentNode, part),
                                   Append(visited, Append(currentNode, part)))
         ELSE [nodes |-> visited,
               remaining |-> SubSeq(namespacePartsArg, i + 1,
                                    Len(namespacePartsArg))]

\* findNearestNode: the visited nodes (as their paths), nearest first, and
\* the parts not found
RECURSIVE findNearestLoop(_, _, _, _, _)
findNearestLoop(tree, namespacePartsArg, i, currentNode, visited) ==
    IF i >= Len(namespacePartsArg)
    THEN [nodes |-> visited, remaining |-> <<>>]
    ELSE LET part == namespacePartsArg[i + 1] IN
         IF childrenHas(tree, currentNode, part)
         THEN findNearestLoop(tree, namespacePartsArg, i + 1,
                              Append(currentNode, part),
                              <<Append(currentNode, part)>> \o visited)
         ELSE [nodes |-> visited, remaining |-> slice(namespacePartsArg, i)]

\* variant: the walk stops at the root
findNearestNode_NoDescent(tree, namespacePartsArg) ==
    [nodes |-> << <<>> >>, remaining |-> namespacePartsArg]

findNearestNode(tree, namespacePartsArg) ==
    findNearestLoop(tree, namespacePartsArg, 0, <<>>, << <<>> >>)

----------------------------------------------------------------------------
(* shouldLog *)

BoolStr(b) == IF b THEN "true" ELSE "false"

\* variant: checkLevel < level instead of checkLevel <= level
RECURSIVE cascadingScan_Strict(_, _, _, _)
cascadingScan_Strict(tree, checkLevel, nodes, k) ==
    IF k > Len(nodes) THEN ErrNoCascading
    ELSE LET level == tree[nodes[k]].cascadingLevel IN
         IF level # Null THEN BoolStr(checkLevel < level)
         ELSE cascadingScan_Strict(tree, checkLevel, nodes, k + 1)

\* variant: only the farthest visited node, the root, is consulted
cascadingScan_RootOnly(tree, checkLevel, nodes, k) ==
    IF k > Len(nodes) \/ tree[nodes[Len(nodes)]].cascadingLevel = Null
    THEN ErrNoCascading
    ELSE BoolStr(checkLevel <= tree[nodes[Len(nodes)]].cascadingLevel)

\* `for (const node of nodes)`: the first visited node with a cascading level
RECURSIVE cascadingScan(_, _, _, _)
cascadingScan(tree, checkLevel, nodes, k) ==
    IF k > Len(nodes) THEN ErrNoCascading
    ELSE LET level == tree[nodes[k]].cascadingLevel IN
         IF level # Null THEN BoolStr(checkLevel <= level)
         ELSE cascadingScan(tree, checkLevel, nodes, k + 1)

\* variant: the operands of ?? exchanged
Coalesce_Swapped(a, b) == IF b # Null THEN b ELSE a

\* a ?? b
Coalesce(a, b) == IF a # Null THEN a ELSE b

\* variant: the level of the nearest node is taken even when parts remain
exactMatchLevel_IgnoresRemaining(tree, found) ==
    Coalesce(tree[found.nodes[1]].nodeLevel,
             tree[found.nodes[1]].cascadingLevel)

\* the exact-match branch: the level found on nodes[0], Null to fall through
exactMatchLevel(tree, found) ==
    IF Len(found.remaining) = 0
    THEN Coalesce(tree[found.nodes[1]].nodeLevel,
                  tree[found.nodes[1]].cascadingLevel)
    ELSE Null

shouldLog(tree, checkLevel, namespace) ==
    LET parsed == namespaceParts(namespace, FALSE) IN
    IF parsed.err # "" THEN parsed.err
    ELSE
      LET found == findNearestNode(tree, parsed.parts)
          level == exactMatchLevel(tree, found)
      IN  IF Len(found.nodes) = 0 THEN ErrNoNamespaces
          ELSE IF level # Null THEN BoolStr(checkLevel <= level)
          ELSE cascadingScan(tree, checkLevel, found.nodes, 1)

----------------------------------------------------------------------------
(* setLogLevel *)

\* variant: writing one slot clears the other
assignLevel_ClearsOther(node, isWildcard, level) ==
    IF isWildcard
    THEN [node EXCEPT !.cascadingLevel = level, !.nodeLevel = Null]
    ELSE [node EXCEPT !.nodeLevel = level, !.cascadingLevel = Null]

\* variant: a slot that holds a level keeps it
assignLevel_FirstWins(node, isWildcard, level) ==
    IF isWildcard
    THEN [node EXCEPT !.cascadingLevel = IF @ = Null THEN level ELSE @]
    ELSE [node EXCEPT !.nodeLevel = IF @ = Null THEN level ELSE @]

\* variant: the level goes to both slots
assignLevel_BothSlots(node, isWildcard, level) ==
    [node EXCEPT !.cascadingLevel = level, !.nodeLevel = level]

\* the slot a call writes: cascadingLevel with the wildcard, else nodeLevel
assignLevel(node, isWildcard, level) ==
    IF isWildcard THEN [node EXCEPT !.cascadingLevel = level]
    ELSE [node EXCEPT !.nodeLevel = level]

\* variant: every created node receives the level, not the last one only
RECURSIVE addRemaining_LevelsEveryNode(_, _, _, _, _, _)
addRemaining_LevelsEveryNode(tree, currentNode, remaining, i, isWildcard, level) ==
    IF i >= Len(remaining) THEN [err |-> "", tree |-> tree]
    ELSE
      LET part == remaining[i + 1]
          blank == NamespaceNode(part, Null, Null)
          childNode == assignLevel(blank, isWildcard, level)
      IN  IF childrenHas(tree, currentNode, part)
          THEN [err |-> ErrShouldntExist, tree |-> tree]
          ELSE addRemaining_LevelsEveryNode(
                  childrenSet(tree, currentNode, part, childNode),
                  Append(currentNode, part), remaining, i + 1,
                  isWildcard, level)

\* variant: without `currentNode = childNode`, every new node becomes a
\* child of the nearest existing node
RECURSIVE addRemaining_Flat(_, _, _, _, _, _)
addRemaining_Flat(tree, currentNode, remaining, i, isWildcard, level) ==
    IF i >= Len(remaining) THEN [err |-> "", tree |-> tree]
    ELSE
      LET part == remaining[i + 1]
          blank == NamespaceNode(part, Null, Null)
          childNode == IF i = Len(remaining) - 1
                       THEN assignLevel(blank, isWildcard, level)
                       ELSE blank
      IN  IF childrenHas(tree, currentNode, part)
          THEN [err |-> ErrShouldntExist, tree |-> tree]
          ELSE addRemaining_Flat(
                  childrenSet(tree, currentNode, part, childNode),
                  currentNode, remaining, i + 1, isWildcard, level)

\* `for (let i = 0; i < remaining.length; i++)`: one new child per part
RECURSIVE addRemaining(_, _, _, _, _, _)
addRemaining(tree, currentNode, remaining, i, isWildcard, level) ==
    IF i >= Len(remaining) THEN [err |-> "", tree |-> tree]
    ELSE
      LET part == remaining[i + 1]
          blank == NamespaceNode(part, Null, Null)
          childNode == IF i = Len(remaining) - 1
                       THEN assignLevel(blank, isWildcard, level)
                       ELSE blank
      IN  IF childrenHas(tree, currentNode, part)
          THEN [err |-> ErrShouldntExist, tree |-> tree]
          ELSE addRemaining(childrenSet(tree, currentNode, part, childNode),
                            Append(currentNode, part), remaining, i + 1,
                            isWildcard, level)

\* the tree after the call and the error it threw ("" when it returned)
setLogLevel(tree, namespace, level) ==
    LET parsed == namespaceParts(namespace, TRUE) IN
    IF parsed.err # "" THEN [err |-> parsed.err, tree |-> tree]
    ELSE
      LET found == findNearestNode(tree, parsed.parts) IN
      IF Len(found.nodes) = 0 THEN [err |-> ErrNoNamespaces, tree |-> tree]
      ELSE IF Len(found.remaining) = 0
      THEN [err |-> "",
            tree |-> [tree EXCEPT ![found.nodes[1]] =
                         assignLevel(@, parsed.isWildcard, level)]]
      ELSE addRemaining(tree, found.nodes[1], found.remaining, 0,
                        parsed.isWildcard, level)

----------------------------------------------------------------------------
(* scopedLog and logToOutputters *)

Methods == {"base", "error", "warn", "info", "log", "debug"}

\* the level each member of the logger passes to logToOutputters
MethodLevel(m) ==
    CASE m = "base" -> LOG
      [] m = "error" -> ERROR
      [] m = "warn" -> WARN
      [] m = "info" -> INFO
      [] m = "log" -> LOG
      [] m = "debug" -> DEBUG

\* the closure scopedLog returns: the namespace and the message it captured
scopedLog(namespace) ==
    [made |-> TRUE,
     namespace |-> namespace,
     message |-> IF namespace = RootNamespace THEN Undefined
                 ELSE <<"[">> \o namespace \o <<"]">>]

NoLogger == [made |-> FALSE, namespace |-> <<>>, message |-> <<>>]

\* variant: the outputters are called whatever shouldLog returns
logToOutputters_Always(tree, outs, namespace, level, message, optionalParams) ==
    LET decision == shouldLog(tree, level, namespace) IN
    IF decision \in {"true", "false"}
    THEN [err |-> "",
          emitted |-> [k \in 1..Len(outs) |->
                          [outputter |-> outs[k], level |-> level,
                           message |-> message,
                           optionalParams |-> optionalParams]]]
    ELSE [err |-> decision, emitted |-> <<>>]

\* the calls made on the outputters, in order, and what the call threw
logToOutputters(tree, outs, namespace, level, message, optionalParams) ==
    LET decision == shouldLog(tree, level, namespace) IN
    IF decision = "true"
    THEN [err |-> "",
          emitted |-> [k \in 1..Len(outs) |->
                          [outputter |-> outs[k], level |-> level,
                           message |-> message,
                           optionalParams |-> optionalParams]]]
    ELSE IF decision = "false" THEN [err |-> "", emitted |-> <<>>]
    ELSE [err |-> decision, emitted |-> <<>>]

----------------------------------------------------------------------------
(* Inputs *)

\* namespaces passed to setLogLevel: the root and a path of depth 1 with and
\* without the wildcard suffix, two siblings of depth 2, and strings with a
\* misplaced ':'
Namespaces ==
    { RootNamespace, <<"*">>,
      <<"a">>, <<"a", ":", "*">>, <<"a", ":", "b">>, <<"a", ":", "c">>,
      <<"a", ":">>, <<"a", ":", ":", "b">> }

\* namespaces the properties look up: those above and a path of depth 3
Lookups ==
    Namespaces \cup { <<"a", ":", "b", ":", "c">> }

\* levels passed to setLogLevel: one more severe and one less severe than
\* the default of the root
SetLevels == {ERROR, DEBUG}

\* namespaces and level of the recorded shouldLog calls; the properties
\* apply the operator shouldLog to every namespace and every level
QueryNamespaces ==
    { RootNamespace, <<"a", ":", "b">>, <<"a", ":", "*">>, <<"*">> }

QueryLevels == {DEBUG}

\* namespaces passed to setLogLevel where the loggers are exercised
AdminNamespaces ==
    { RootNamespace, <<"$", ":", "*">>, <<"a">>,
      <<"a", ":", "*">>, <<"a", ":", "b">> }

\* namespace of the recorded shouldLog calls where the loggers are exercised
LoggerQueries == { <<"a", ":", "b">> }

\* namespaces the loggers are made for
LoggerNamespaces ==
    { RootNamespace, <<>>, <<"$">>, <<"a", ":", "b">>, <<"a", ":", "*">> }

\* the rest arguments of a logger call
Params == { <<"x">> }

\* number of level slots holding a level
LevelsSet(tree) ==
    Cardinality({p \in DOMAIN tree : tree[p].nodeLevel # Null})
    + Cardinality({p \in DOMAIN tree : tree[p].cascadingLevel # Null})

----------------------------------------------------------------------------
(* The state machine *)

Call(op, namespace, level, optionalParams) ==
    [op |-> op, namespace |-> namespace, level |-> level,
     optionalParams |-> optionalParams]

Pre(tree, slot) == [size |-> Cardinality(DOMAIN tree), slot |-> slot]

\* the level held by the slot setLogLevel(namespace, _) addresses, Null when
\* it holds none, its node does not exist or the namespace is rejected
slotBefore(tree, namespace) ==
    LET parsed == namespaceParts(namespace, TRUE) IN
    IF parsed.err # "" \/ parsed.parts \notin DOMAIN tree THEN Null
    ELSE IF parsed.isWildcard THEN tree[parsed.parts].cascadingLevel
    ELSE tree[parsed.parts].nodeLevel

Init ==
    /\ namespaces = createRootNode
    /\ outputters = <<ConsoleOutputter>>
    /\ logger = NoLogger
    /\ call = Call("init", <<>>, Null, <<>>)
    /\ result = "void"
    /\ emitted = <<>>
    /\ pre = Pre(createRootNode, Null)
    /\ terminals = {}
    /\ atCreation = [c \in LogLevel |-> "void"]

SetLogLevel(namespace, level) ==
    LET r == setLogLevel(namespaces, namespace, level) IN
    /\ LevelsSet(r.tree) <= MaxLevelsSet
    /\ namespaces' = r.tree
    /\ call' = Call("setLogLevel", namespace, level, <<>>)
    /\ result' = IF r.err = "" THEN "void" ELSE r.err
    /\ emitted' = <<>>
    /\ pre' = Pre(namespaces, slotBefore(namespaces, namespace))
    /\ terminals' = IF r.err = ""
                    THEN terminals \cup {namespaceParts(namespace, TRUE).parts}
                    ELSE terminals
    /\ UNCHANGED <<outputters, logger, atCreation>>

ShouldLog(checkLevel, namespace) ==
    /\ call' = Call("shouldLog", namespace, checkLevel, <<>>)
    /\ result' = shouldLog(namespaces, checkLevel, namespace)
    /\ emitted' = <<>>
    /\ pre' = Pre(namespaces, Null)
    /\ UNCHANGED <<namespaces, outputters, logger, terminals, atCreation>>

\* variant: the root's levels are restored and its children kept
Reset_KeepsChildren ==
    /\ namespaces' = [namespaces EXCEPT ![<<>>] = createRootNode[<<>>]]
    /\ call' = Call("reset", <<>>, Null, <<>>)
    /\ result' = "void"
    /\ emitted' = <<>>
    /\ pre' = Pre(namespaces, Null)
    /\ terminals' = {}
    /\ UNCHANGED <<outputters, logger, atCreation>>

Reset ==
    /\ namespaces' = createRootNode
    /\ call' = Call("reset", <<>>, Null, <<>>)
    /\ result' = "void"
    /\ emitted' = <<>>
    /\ pre' = Pre(namespaces, Null)
    /\ terminals' = {}
    /\ UNCHANGED <<outputters, logger, atCreation>>

ScopedLog(namespace) ==
    /\ logger' = scopedLog(namespace)
    /\ call' = Call("scopedLog", namespace, Null, <<>>)
    /\ result' = "void"
    /\ emitted' = <<>>
    /\ pre' = Pre(namespaces, Null)
    /\ atCreation' = [c \in LogLevel |-> shouldLog(namespaces, c, namespace)]
    /\ UNCHANGED <<namespaces, outputters, terminals>>

\* variant: the logger emits by what shouldLog answered when it was made
LoggerCall_AtCreation(method, optionalParams) ==
    LET decision == atCreation[MethodLevel(method)] IN
    /\ logger.made
    /\ call' = Call(method, logger.namespace, MethodLevel(method),
                    optionalParams)
    /\ result' = IF decision \in {"true", "false"} THEN "void" ELSE decision
    /\ emitted' = IF decision = "true"
                  THEN [k \in 1..Len(outputters) |->
                          [outputter |-> outputters[k],
                           level |-> MethodLevel(method),
                           message |-> logger.message,
                           optionalParams |-> optionalParams]]
                  ELSE <<>>
    /\ pre' = Pre(namespaces, Null)
    /\ UNCHANGED <<namespaces, outputters, logger, terminals, atCreation>>

LoggerCall(method, optionalParams) ==
    LET r == logToOutputters(namespaces, outputters, logger.namespace,
                             MethodLevel(method), logger.message,
                             optionalParams)
    IN
    /\ logger.made
    /\ call' = Call(method, logger.namespace, MethodLevel(method),
                    optionalParams)
    /\ result' = IF r.err = "" THEN "void" ELSE r.err
    /\ emitted' = r.emitted
    /\ pre' = Pre(namespaces, Null)
    /\ UNCHANGED <<namespaces, outputters, logger, terminals, atCreation>>

Next ==
    \/ \E namespace \in Namespaces, level \in SetLevels :
          SetLogLevel(namespace, level)
    \/ \E checkLevel \in QueryLevels, namespace \in QueryNamespaces :
          ShouldLog(checkLevel, namespace)
    \/ Reset

Spec == Init /\ [][Next]_vars

\* the tree operations together with the loggers
NextLogger ==
    \/ \E namespace \in AdminNamespaces, level \in SetLevels :
          SetLogLevel(namespace, level)
    \/ \E checkLevel \in QueryLevels, namespace \in LoggerQueries :
          ShouldLog(checkLevel, namespace)
    \/ Reset
    \/ \E namespace \in LoggerNamespaces : ScopedLog(namespace)
    \/ \E method \in Methods, optionalParams \in Params :
          LoggerCall(method, optionalParams)

SpecLogger == Init /\ [][NextLogger]_vars

TypeOK ==
    /\ \A p \in DOMAIN namespaces :
          /\ namespaces[p].nodeLevel \in LogLevel \cup {Null}
          /\ namespaces[p].cascadingLevel \in LogLevel \cup {Null}
    /\ result \in {"void", "true", "false"} \cup ValidationErrors \cup FatalErrors

----------------------------------------------------------------------------
(* Vocabulary of the properties *)

\* the namespace is accepted by a lookup
WellFormed(q) == namespaceParts(q, FALSE).err = ""

\* the path a lookup of q resolves to
PathOf(q) == namespaceParts(q, FALSE).parts

\* the namespaces a lookup accepts
Queries == {q \in Lookups : WellFormed(q)}

\* the path and the slot a setLogLevel(ns, _) addresses
Target(ns) == namespaceParts(ns, TRUE)

\* the last step was an accepted setLogLevel
Accepted(c, r) == c.op = "setLogLevel" /\ r = "void"

\* the last character-level segment of ns is the wildcard token
EndsInWildcard(ns) ==
    \/ ns = <<"*">>
    \/ Len(ns) >= 2 /\ ns[Len(ns)] = "*" /\ ns[Len(ns) - 1] = ":"

\* the cascading level of the deepest existing node on the path that has
\* one, looking from the path upwards
RECURSIVE NearestCascading(_, _)
NearestCascading(tree, path) ==
    IF path \in DOMAIN tree /\ tree[path].cascadingLevel # Null
    THEN tree[path].cascadingLevel
    ELSE IF path = <<>> THEN Null
    ELSE NearestCascading(tree, SubSeq(path, 1, Len(path) - 1))

\* q's node has no exact level, and no node below p down to q has a
\* cascading level
NoCloserOverride(tree, p, qp) ==
    /\ qp \in DOMAIN tree => tree[qp].nodeLevel = Null
    /\ \A k \in (Len(p) + 1)..Len(qp) :
          SubSeq(qp, 1, k) \in DOMAIN tree
             => tree[SubSeq(qp, 1, k)].cascadingLevel = Null

----------------------------------------------------------------------------
(* C1 *)

\* C1: exact levels do not inherit.  An accepted setLogLevel without the
\* wildcard changes the result of shouldLog only for the namespaces that
\* resolve to the path it addresses; for every other namespace, its
\* descendants included, that a lookup accepts and every level the result is
\* the same after the call as before it.
C1_ExactLevelsDoNotInherit ==
    [][ (Accepted(call', result') /\ ~Target(call'.namespace).isWildcard)
        => \A q \in Queries :
              PathOf(q) # Target(call'.namespace).parts
                 => \A c \in LogLevel :
                       shouldLog(namespaces', c, q)
                          = shouldLog(namespaces, c, q)
      ]_vars

\* setLogLevel("a:b", DEBUG) has acted: a:b logs at DEBUG, a:b:c does not
C1_Witness ==
    /\ Accepted(call, result)
    /\ call.namespace = <<"a", ":", "b">>
    /\ call.level = DEBUG
    /\ shouldLog(namespaces, DEBUG, <<"a", ":", "b">>) = "true"
    /\ shouldLog(namespaces, DEBUG, <<"a", ":", "b", ":", "c">>) = "false"

----------------------------------------------------------------------------
(* C2 *)

\* C2: wildcard inheritance.  After an accepted setLogLevel("ns:*", L),
\* every namespace q that is ns or a descendant of ns, whose own node has
\* no exact level and with no cascading level on a node below ns down to q,
\* has shouldLog(c, q) = (c <= L) for every level c.
C2_WildcardInheritance ==
    [][ (Accepted(call', result') /\ Target(call'.namespace).isWildcard)
        => \A q \in Queries :
              ( /\ IsPrefix(Target(call'.namespace).parts, PathOf(q))
                /\ NoCloserOverride(namespaces',
                                    Target(call'.namespace).parts, PathOf(q)) )
                 => \A c \in LogLevel :
                       shouldLog(namespaces', c, q)
                          = BoolStr(c <= call'.level)
      ]_vars

\* setLogLevel("a:*", DEBUG) has acted on a tree with no other level below
\* a: both a and a:b:c log at DEBUG
C2_Witness ==
    /\ Accepted(call, result)
    /\ call.namespace = <<"a", ":", "*">>
    /\ call.level = DEBUG
    /\ DOMAIN namespaces = {<<>>, << <<"a">> >>}
    /\ shouldLog(namespaces, DEBUG, <<"a">>) = "true"
    /\ shouldLog(namespaces, DEBUG, <<"a", ":", "b", ":", "c">>) = "true"

----------------------------------------------------------------------------
(* C3 *)

\* C3: override precedence.  A namespace whose node has an exact level L2
\* has shouldLog(c, namespace) = (c <= L2) whatever cascading levels its
\* node and its ancestors carry, and a namespace with no level on a node of
\* its own resolves to the cascading level of its nearest ancestor that has
\* one.
C3_OverridePrecedence ==
    \A q \in Queries, c \in LogLevel :
       LET p == PathOf(q) IN
       /\ (p \in DOMAIN namespaces /\ namespaces[p].nodeLevel # Null)
             => shouldLog(namespaces, c, q)
                   = BoolStr(c <= namespaces[p].nodeLevel)
       /\ (p \notin DOMAIN namespaces
              \/ (namespaces[p].nodeLevel = Null
                     /\ namespaces[p].cascadingLevel = Null))
             => shouldLog(namespaces, c, q)
                   = BoolStr(c <= NearestCascading(namespaces, p))

\* after setLogLevel("a:*", ERROR) and setLogLevel("a:b", DEBUG): a:b logs
\* at DEBUG, its sibling a:c does not
C3_Witness ==
    /\ << <<"a">>, <<"b">> >> \in DOMAIN namespaces
    /\ << <<"a">>, <<"c">> >> \notin DOMAIN namespaces
    /\ namespaces[<< <<"a">> >>].cascadingLevel = ERROR
    /\ namespaces[<< <<"a">>, <<"b">> >>].nodeLevel = DEBUG
    /\ shouldLog(namespaces, DEBUG, <<"a", ":", "b">>) = "true"
    /\ shouldLog(namespaces, DEBUG, <<"a", ":", "c">>) = "false"

----------------------------------------------------------------------------
(* C4 *)

\* C4: reset restores the defaults.  After reset() the tree consists of the
\* root alone, and for every level c and every namespace a lookup accepts
\* shouldLog gives what it gives on a freshly created root,
\* (c <= DEFAULT_ROOT_LEVEL).
C4_ResetRestoresDefaults ==
    [][ call'.op = "reset"
        => /\ DOMAIN namespaces' = {<<>>}
           /\ \A q \in Queries, c \in LogLevel :
                 shouldLog(namespaces', c, q)
                    = BoolStr(c <= DEFAULT_ROOT_LEVEL)
      ]_vars

\* reset() has acted on a tree of several nodes, the root included
C4_Witness ==
    /\ call.op = "reset"
    /\ pre.size >= 3
    /\ shouldLog(namespaces, DEBUG, <<"a", ":", "b">>) = "false"
    /\ shouldLog(namespaces, INFO, <<"a", ":", "b">>) = "true"

----------------------------------------------------------------------------
(* C5 *)

\* C5: validation rejects malformed input before touching the tree.
\* setLogLevel with a namespace ending in ':' or containing '::', and
\* shouldLog with a namespace whose last segment is '*', throw a validation
\* error, never return a decision, and leave the tree as it was.
C5_ValidationRejects ==
    [][ /\ ( /\ call'.op = "setLogLevel"
             /\ \/ endsWith(call'.namespace, ":")
                \/ includes2(call'.namespace, ":", ":") )
           => (result' \in ValidationErrors /\ namespaces' = namespaces)
        /\ (call'.op = "shouldLog" /\ EndsInWildcard(call'.namespace))
           => (result' \in ValidationErrors /\ namespaces' = namespaces)
      ]_vars

\* setLogLevel("a::b", L) has thrown on a tree that has the node a
C5_Witness ==
    /\ call.op = "setLogLevel"
    /\ call.namespace = <<"a", ":", ":", "b">>
    /\ result = ErrEmptySegments
    /\ << <<"a">> >> \in DOMAIN namespaces

----------------------------------------------------------------------------
(* C6 *)

\* C6: root invariant.  In every state reached by setLogLevel, shouldLog,
\* reset and logger calls the root node has a cascading level; it may be
\* overwritten, it is never cleared.
C6_RootHasCascadingLevel ==
    /\ <<>> \in DOMAIN namespaces
    /\ namespaces[<<>>].cascadingLevel \in LogLevel

\* setLogLevel("$:*", DEBUG) has overwritten the cascading level of a root
\* that also has an exact level
C6_Witness ==
    /\ Accepted(call, result)
    /\ call.namespace = <<"$", ":", "*">>
    /\ call.level = DEBUG
    /\ pre.slot # DEBUG
    /\ namespaces[<<>>].cascadingLevel = DEBUG
    /\ namespaces[<<>>].nodeLevel # Null

----------------------------------------------------------------------------
(* C7 *)

\* the slot of the tree that setLogLevel(ns, _) addresses
SlotOf(tree, ns) ==
    IF Target(ns).isWildcard THEN tree[Target(ns).parts].cascadingLevel
    ELSE tree[Target(ns).parts].nodeLevel

\* C7: idempotent re-set.  setLogLevel(ns, L2) right after an accepted
\* setLogLevel on the same path and slot with L1 does not throw, adds no
\* node, leaves a node for every prefix of the path and L2 in the slot; with
\* L2 = L1 it leaves the whole tree unchanged.
C7_IdempotentReSet ==
    [][ ( /\ Accepted(call, result)
          /\ call'.op = "setLogLevel"
          /\ Target(call'.namespace).err = ""
          /\ Target(call'.namespace).parts = Target(call.namespace).parts
          /\ Target(call'.namespace).isWildcard
                = Target(call.namespace).isWildcard )
        => /\ result' = "void"
           /\ DOMAIN namespaces' = DOMAIN namespaces
           /\ \A k \in 0..Len(Target(call'.namespace).parts) :
                 SubSeq(Target(call'.namespace).parts, 1, k)
                    \in DOMAIN namespaces'
           /\ SlotOf(namespaces', call'.namespace) = call'.level
           /\ call'.level = call.level => namespaces' = namespaces
      ]_vars

\* setLogLevel("a:b", DEBUG) has acted on a tree where the exact level of
\* a:b was ERROR
C7_Witness ==
    /\ Accepted(call, result)
    /\ call.namespace = <<"a", ":", "b">>
    /\ call.level = DEBUG
    /\ pre.slot = ERROR
    /\ pre.size = Cardinality(DOMAIN namespaces)
    /\ namespaces[<< <<"a">>, <<"b">> >>].nodeLevel = DEBUG

----------------------------------------------------------------------------
(* C8 *)

\* C8: root default.  On the tree as created, and right after reset(),
\* shouldLog(INFO, RootNamespace) is true, shouldLog(DEBUG, RootNamespace)
\* is false, and shouldLog(c, q) = (c <= INFO) for every level c and every
\* namespace q a lookup accepts.
C8_RootDefault ==
    call.op \in {"init", "reset"}
       => /\ shouldLog(namespaces, INFO, RootNamespace) = "true"
          /\ shouldLog(namespaces, DEBUG, RootNamespace) = "false"
          /\ \A q \in Queries, c \in LogLevel :
                shouldLog(namespaces, c, q) = BoolStr(c <= INFO)

\* reset() has acted on a tree with nodes below the root
C8_Witness ==
    /\ call.op = "reset"
    /\ pre.size >= 2
    /\ shouldLog(namespaces, INFO, RootNamespace) = "true"
    /\ shouldLog(namespaces, DEBUG, RootNamespace) = "false"

----------------------------------------------------------------------------
(* C9 *)

\* C9: lookup is total and the invariant-violation errors are unreachable.
\* In every reachable state shouldLog returns a boolean for every level and
\* every namespace a lookup accepts, and neither shouldLog nor setLogLevel,
\* on any namespace, throws 'No namespaces found invalid tree', 'Invalid
\* root namespace, no cascading level defined' or 'Namespace shoudn't exist
\* in the tree'.
C9_LookupTotalNoFatalError ==
    /\ result \notin FatalErrors
    /\ \A q \in Lookups, c \in LogLevel :
          shouldLog(namespaces, c, q)
             \in IF WellFormed(q) THEN {"true", "false"} ELSE ValidationErrors
    /\ \A ns \in Lookups, level \in SetLevels :
          setLogLevel(namespaces, ns, level).err \notin FatalErrors

\* shouldLog("a:b") has returned on a tree where a is an intermediate node
\* without a level, so that the lookup of a falls through to the scan
C9_Witness ==
    /\ call.op = "shouldLog"
    /\ call.namespace = <<"a", ":", "b">>
    /\ result \in {"true", "false"}
    /\ << <<"a">> >> \in DOMAIN namespaces
    /\ namespaces[<< <<"a">> >>].nodeLevel = Null
    /\ namespaces[<< <<"a">> >>].cascadingLevel = Null
    /\ shouldLog(namespaces, INFO, <<"a">>) = "true"

----------------------------------------------------------------------------
(* C10 *)

----------------------------------------------------------------------------
(* C11 *)

\* the message a logger passes to the outputters is no bracketed tag
NoTag(message) == message = Undefined

\* C11: namespace tag.  Every accepted call on a logger made for a
\* namespace that is not the root passes the tag "[namespace]" to the
\* outputters ahead of the arguments of the call, and an accepted call on a
\* logger made for the root namespace, in any spelling the parser takes for
\* the root (RootNamespace, "" and "$"), passes no tag.
C11_NamespaceTag ==
    (call.op \in Methods /\ emitted # <<>>)
       => \A k \in 1..Len(emitted) :
             IF PathOf(logger.namespace) = <<>>
             THEN NoTag(emitted[k].message)
             ELSE emitted[k].message
                     = <<"[">> \o logger.namespace \o <<"]">>

----------------------------------------------------------------------------
(* Namespaces outside the well-formed ones: the spellings of the root, a    *)
(* leading delimiter, and the wildcard token away from the last segment.    *)

OddNamespaces ==
    { RootNamespace, <<>>, <<"$">>, <<"$", ":", "*">>,
      <<":", "a">>, <<"*", ":", "a">>, <<"a", "*">>,
      <<"a">>, <<"a", ":", ":", "b">>, <<"a", ":">> }
OddQueries == { <<>>, <<"$">>, <<":", "a">>, <<"a", ":">> }

NextOdd ==
    \/ \E namespace \in OddNamespaces, level \in SetLevels :
          SetLogLevel(namespace, level)
    \/ \E checkLevel \in QueryLevels, namespace \in OddQueries :
          ShouldLog(checkLevel, namespace)
    \/ Reset

SpecOdd == Init /\ [][NextOdd]_vars

\* the three spellings of the root namespace
RootAliases == { RootNamespace, <<>>, <<"$">> }

----------------------------------------------------------------------------
(* C12 *)

\* C12: root aliases address one node.  In every reachable state and for
\* every level c, shouldLog gives the same answer for RootNamespace, "" and
\* "$"; an accepted setLogLevel with any of the three leaves the level in
\* the root's nodeLevel, and setLogLevel("$:*", L) leaves it in the root's
\* cascadingLevel; none of these calls adds a node.
C12_RootAliases ==
    /\ \A c \in LogLevel :
          /\ shouldLog(namespaces, c, <<>>)
                = shouldLog(namespaces, c, RootNamespace)
          /\ shouldLog(namespaces, c, <<"$">>)
                = shouldLog(namespaces, c, RootNamespace)
          /\ shouldLog(namespaces, c, RootNamespace) \in {"true", "false"}
    /\ (call.op = "setLogLevel" /\ call.namespace \in RootAliases)
          => /\ result = "void"
             /\ namespaces[<<>>].nodeLevel = call.level
             /\ Cardinality(DOMAIN namespaces) = pre.size
    /\ (call.op = "setLogLevel" /\ call.namespace = <<"$", ":", "*">>)
          => /\ result = "void"
             /\ namespaces[<<>>].cascadingLevel = call.level
             /\ Cardinality(DOMAIN namespaces) = pre.size

\* "$" set the root's exact level and "$:*" its cascading level, with other
\* nodes in the tree
C12_Witness ==
    /\ call.op = "setLogLevel"
    /\ call.namespace = <<"$", ":", "*">>
    /\ call.level = DEBUG
    /\ namespaces[<<>>].cascadingLevel = DEBUG
    /\ namespaces[<<>>].nodeLevel = ERROR
    /\ pre.slot = DEFAULT_ROOT_LEVEL
    /\ Cardinality(DOMAIN namespaces) > 1
    /\ shouldLog(namespaces, DEBUG, <<"$">>) = "false"

----------------------------------------------------------------------------
(* C13 *)

\* the level that decides a lookup of the path qp: the exact level of its
\* node when the node exists and has one, otherwise the cascading level of
\* the deepest node on the path, qp's own node included, that has one
eff(tree, qp) ==
    IF qp \in DOMAIN tree /\ tree[qp].nodeLevel # Null
    THEN tree[qp].nodeLevel
    ELSE NearestCascading(tree, qp)

\* q's node exists and holds no level in either slot
BothSlotsNull(tree, qp) ==
    /\ qp \in DOMAIN tree
    /\ tree[qp].nodeLevel = Null
    /\ tree[qp].cascadingLevel = Null

\* C13: lookup matches the reference resolution.  In every reachable tree
\* and for every well-formed namespace q and level c, shouldLog(c, q) is
\* c <= eff(q); and when q's node exists with both slots null, the result is
\* the one the ancestor scan gives when started directly on the visited
\* nodes.
C13_ReferenceResolution ==
    \A q \in Queries, c \in LogLevel :
       LET r == shouldLog(namespaces, c, q) IN
       /\ eff(namespaces, PathOf(q)) # Null
       /\ r = BoolStr(c <= eff(namespaces, PathOf(q)))
       /\ BothSlotsNull(namespaces, PathOf(q))
             => r = cascadingScan(namespaces, c,
                       findNearestNode(namespaces, PathOf(q)).nodes, 1)

\* a lookup of "a" while "a" exists only as the parent of "a:b": both of its
\* slots are null and a cascading level set on the root decides
C13_Witness ==
    /\ call.op = "shouldLog"
    /\ BothSlotsNull(namespaces, <<<<"a">>>>)
    /\ <<<<"a">>, <<"b">>>> \in DOMAIN namespaces
    /\ namespaces[<<>>].cascadingLevel = DEBUG
    /\ namespaces[<<<<"a">>, <<"b">>>>].nodeLevel = ERROR
    /\ shouldLog(namespaces, DEBUG, <<"a">>) = "true"
    /\ shouldLog(namespaces, DEBUG, <<"a", ":", "b">>) = "false"
    /\ shouldLog(namespaces, DEBUG, <<"a", ":", "c">>) = "true"

----------------------------------------------------------------------------
(* C14 *)

\* the character ch occurs in the string str
HasChar(str, ch) == \E i \in 1..Len(str) : str[i] = ch

\* C14: segment invariant.  In every state reached by accepted setLogLevel
\* calls no node's segment contains the delimiter ':' or the wildcard token
\* '*', be it a segment that is exactly "*" before the last position of the
\* namespace or a segment that merely contains '*'.
C14_SegmentInvariant ==
    \A p \in DOMAIN namespaces :
       /\ ~HasChar(namespaces[p].namespacePart, ":")
       /\ ~HasChar(namespaces[p].namespacePart, "*")

----------------------------------------------------------------------------
(* C15 *)

\* C15: setLogLevel writes exactly one slot of exactly one node.  After an
\* accepted setLogLevel(ns, L): with a wildcard suffix the target's
\* cascadingLevel is L and its nodeLevel is the one it had (null when the
\* node is new); without it the target's nodeLevel is L and its
\* cascadingLevel is the one it had; both slots of every other node that
\* existed before the call are unchanged.
C15_WritesOneSlot ==
    [][ Accepted(call', result')
          => LET t == Target(call'.namespace) IN
             /\ t.parts \in DOMAIN namespaces'
             /\ IF t.isWildcard
                THEN /\ namespaces'[t.parts].cascadingLevel = call'.level
                     /\ namespaces'[t.parts].nodeLevel
                           = IF t.parts \in DOMAIN namespaces
                             THEN namespaces[t.parts].nodeLevel ELSE Null
                ELSE /\ namespaces'[t.parts].nodeLevel = call'.level
                     /\ namespaces'[t.parts].cascadingLevel
                           = IF t.parts \in DOMAIN namespaces
                             THEN namespaces[t.parts].cascadingLevel ELSE Null
             /\ \A p \in DOMAIN namespaces \ {t.parts} :
                   /\ p \in DOMAIN namespaces'
                   /\ namespaces'[p] = namespaces[p]
      ]_vars

\* "a:*" was set on a node "a" that held an exact level: the exact level
\* of "a" and both slots of the root are as they were
C15_Witness ==
    /\ Accepted(call, result)
    /\ call.namespace = <<"a", ":", "*">>
    /\ call.level = DEBUG
    /\ pre.slot = Null
    /\ pre.size = 2
    /\ namespaces[<<<<"a">>>>].nodeLevel = ERROR
    /\ namespaces[<<<<"a">>>>].cascadingLevel = DEBUG
    /\ namespaces[<<>>] = createRootNode[<<>>]

----------------------------------------------------------------------------
(* C16 *)

\* C16: intermediate nodes carry no level.  In every reachable state a
\* node other than the root whose path has not been the target path of an
\* accepted setLogLevel since the last reset has a null nodeLevel and a
\* null cascadingLevel.
C16_IntermediateNodesCarryNoLevel ==
    \A p \in DOMAIN namespaces :
       (p # <<>> /\ p \notin terminals)
          => /\ namespaces[p].nodeLevel = Null
             /\ namespaces[p].cascadingLevel = Null

\* "a" exists only because "a:b" and "a:c" were set
C16_Witness ==
    /\ Accepted(call, result)
    /\ <<<<"a">>>> \in DOMAIN namespaces
    /\ <<<<"a">>>> \notin terminals
    /\ terminals = { <<<<"a">>, <<"b">>>>, <<<<"a">>, <<"c">>>> }
    /\ namespaces[<<<<"a">>, <<"b">>>>].nodeLevel = ERROR
    /\ namespaces[<<<<"a">>, <<"c">>>>].nodeLevel = DEBUG
    /\ BothSlotsNull(namespaces, <<<<"a">>>>)

----------------------------------------------------------------------------
(* C17 *)

\* the path and every prefix of it, the root path included
Prefixes(path) == { SubSeq(path, 1, k) : k \in 0..Len(path) }

\* C17: nodes are created lazily and only reset removes them.  A lookup, the
\* making of a logger and a logger call leave the set of node paths as it
\* was; an accepted setLogLevel(ns, L) adds exactly the prefixes of ns's path
\* that were missing and removes none; a rejected one changes nothing; and
\* the set loses a path only in a reset, which leaves the root alone.
C17_LazyCreation ==
    [][ /\ call'.op \notin {"setLogLevel", "reset"}
           => DOMAIN namespaces' = DOMAIN namespaces
        /\ Accepted(call', result')
           => DOMAIN namespaces'
                 = DOMAIN namespaces
                      \cup Prefixes(Target(call'.namespace).parts)
        /\ (call'.op = "setLogLevel" /\ result' # "void")
           => DOMAIN namespaces' = DOMAIN namespaces
        /\ ~(DOMAIN namespaces \subseteq DOMAIN namespaces')
           => call'.op = "reset" /\ DOMAIN namespaces' = { <<>> }
      ]_vars

\* a logger call on a tree whose nodes "a" and "a:b" one setLogLevel made
C17_Witness ==
    /\ call.op \in Methods
    /\ emitted # <<>>
    /\ pre.size = 3
    /\ DOMAIN namespaces = { <<>>, <<<<"a">>>>, <<<<"a">>, <<"b">>>> }
    /\ terminals = { <<<<"a">>, <<"b">>>> }

----------------------------------------------------------------------------
(* C18 *)

\* ns, split on ':', has an empty segment, and is not the string ""
HasEmptySegment(ns) ==
    /\ ns # RootNamespace
    /\ ns # <<>>
    /\ \E k \in 1..Len(split(ns, ":")) : split(ns, ":")[k] = <<>>

\* C18: no empty segments.  setLogLevel and shouldLog reject, with a
\* validation error, a namespace that has an empty segment when split on
\* ':' (":a" as well as "a::b" and "a:"), the string "" apart; so in every
\* reachable state no node has the empty string as its segment.
C18_NoEmptySegments ==
    /\ (call.op \in {"setLogLevel", "shouldLog"}
          /\ HasEmptySegment(call.namespace))
          => result \in ValidationErrors
    /\ \A p \in DOMAIN namespaces : namespaces[p].namespacePart # <<>>

----------------------------------------------------------------------------
(* C19 *)

\* C19: loggers resolve their level at call time.  For a logger made by
\* scopedLog(ns) at any earlier point, a call of one of its methods passes
\* its arguments to the outputters if and only if shouldLog(level, ns) is
\* true in the tree the call finds, whatever it was when the logger was made;
\* and the call throws exactly what shouldLog throws.
C19_ResolvedAtCallTime ==
    call.op \in Methods
       => LET now == shouldLog(namespaces, MethodLevel(call.op),
                               logger.namespace)
          IN  /\ logger.made
              /\ emitted # <<>> <=> now = "true"
              /\ result = IF now \in {"true", "false"} THEN "void" ELSE now

\* debug() passes its arguments on although shouldLog(DEBUG, ns) was false
\* when the logger was made: a setLogLevel came after the making
C19_Witness ==
    /\ call.op = "debug"
    /\ emitted # <<>>
    /\ atCreation[DEBUG] = "false"
    /\ logger.namespace = <<"a", ":", "b">>
    /\ namespaces[<<<<"a">>>>].cascadingLevel = DEBUG

----------------------------------------------------------------------------
(* Accepted assignments only: both slots of the root, both slots of a node  *)
(* below it, and two siblings below that node.                              *)

AssignNamespaces ==
    { RootNamespace, <<"*">>,
      <<"a">>, <<"a", ":", "*">>, <<"a", ":", "b">>, <<"a", ":", "c">> }

NextAssign ==
    \/ \E namespace \in AssignNamespaces, level \in SetLevels :
          SetLogLevel(namespace, level)
    \/ Reset

SpecAssign == Init /\ [][NextAssign]_vars

----------------------------------------------------------------------------
(* C20 *)

\* n1 and n2 address the same slot of the same path
SameSlot(n1, n2) ==
    /\ Target(n1).parts = Target(n2).parts
    /\ Target(n1).isWildcard = Target(n2).isWildcard

\* the tree after setLogLevel(n1, l1) and then setLogLevel(n2, l2)
Both(tree, n1, l1, n2, l2) ==
    setLogLevel(setLogLevel(tree, n1, l1).tree, n2, l2).tree

\* C20: order independence of distinct assignments.  From every reachable
\* tree, two accepted setLogLevel calls on different (path, slot) pairs give
\* the same tree in either order, the same nodes with the same nodeLevel
\* and cascadingLevel, hence the same shouldLog answers; two calls on the
\* same (path, slot) leave the tree the later one alone leaves.
C20_OrderIndependence ==
    \A n1 \in AssignNamespaces, n2 \in AssignNamespaces :
       \A l1 \in SetLevels, l2 \in SetLevels :
          LET first == setLogLevel(namespaces, n1, l1)
              after == setLogLevel(first.tree, n2, l2).tree
          IN  /\ first.err = ""
              /\ IF SameSlot(n1, n2)
                 THEN /\ after = setLogLevel(namespaces, n2, l2).tree
                      /\ SlotOf(after, n2) = l2
                 ELSE /\ after = Both(namespaces, n2, l2, n1, l1)
                      /\ SlotOf(after, n1) = l1
                      /\ SlotOf(after, n2) = l2

\* "a:c" was set after "a:b", and the tree is the one the opposite order
\* gives from a fresh tree
C20_Witness ==
    /\ Accepted(call, result)
    /\ call.namespace = <<"a", ":", "c">>
    /\ pre.size = 3
    /\ terminals = { <<<<"a">>, <<"b">>>>, <<<<"a">>, <<"c">>>> }
    /\ namespaces[<<<<"a">>, <<"b">>>>].nodeLevel = ERROR
    /\ namespaces = Both(createRootNode, <<"a", ":", "c">>, DEBUG,
                         <<"a", ":", "b">>, ERROR)

====
